---- MODULE Spec2Model ----
\* Model of lightbulb/internal/di.py: the signature analyzer
\* find_injectable_kwargs, the LazyInjecting wrapper (construction, descriptor
\* access, asynchronous call) and the load-time LIGHTBULB_DI_DISABLED switch.
EXTENDS Integers, Sequences, FiniteSets, TLC

VARIABLES
    environ,        \* value of os.environ["LIGHTBULB_DI_DISABLED"] (Unset or a string, as characters)
    LazyInjecting,  \* the class the module-level name LazyInjecting is bound to after load
    decorated,      \* the object LazyInjecting(func) returned to the decorator
    wrappers,       \* heap of LazyInjecting instances: id -> [_func, _self]
    constructed,    \* history: what each wrapper's __init__ was given
    ret,            \* history: the last descriptor access and what it returned
    ctx,            \* _di_container as seen from each task's context
    inv,            \* per task: the frame of its wrapper invocation
    probe           \* a direct call of find_injectable_kwargs and its result

vars == <<environ, LazyInjecting, decorated, wrappers, constructed, ret, ctx, inv, probe>>

----------------------------------------------------------------------------
\* Bounds

MaxArgs == 2
MaxKwargs == 1
MaxWrappers == 3
MaxParams == 3

----------------------------------------------------------------------------
\* Values

None == "None"
Unset == "<unset>"
Empty == "inspect.Parameter.empty"

POSITIONAL_ONLY == "POSITIONAL_ONLY"
POSITIONAL_OR_KEYWORD == "POSITIONAL_OR_KEYWORD"
VAR_POSITIONAL == "VAR_POSITIONAL"
KEYWORD_ONLY == "KEYWORD_ONLY"
VAR_KEYWORD == "VAR_KEYWORD"

Kinds == <<POSITIONAL_ONLY, POSITIONAL_OR_KEYWORD, VAR_POSITIONAL, KEYWORD_ONLY, VAR_KEYWORD>>

Parameter(name, kind, annotation, default) ==
    [name |-> name, kind |-> kind, annotation |-> annotation, default |-> default]

Range(s) == {s[i] : i \in DOMAIN s}

----------------------------------------------------------------------------
\* find_injectable_kwargs

signature(func) == func.parameters

\* dict.__setitem__ on an insertion-ordered dict held as a sequence of
\* <<key, value>> pairs: a new key goes last, an old key keeps its place
SetItem(d, k, v) ==
    IF \E i \in DOMAIN d : d[i][1] = k
    THEN [i \in DOMAIN d |-> IF d[i][1] = k THEN <<k, v>> ELSE d[i]]
    ELSE Append(d, <<k, v>>)

Keys(d) == {d[i][1] : i \in DOMAIN d}

GetItem(d, k) == d[CHOOSE i \in DOMAIN d : d[i][1] = k][2]

\* find_injectable_kwargs with one exclusion test of lines 61-68 dropped
RECURSIVE InjectLoop_no_kind_check(_, _, _)
InjectLoop_no_kind_check(rest, passed_kwargs, injectable_parameters) ==
    IF rest = <<>> THEN injectable_parameters
    ELSE LET parameter == Head(rest)
         IN  IF \/ parameter.annotation = Empty
                \/ parameter.default # Empty
                \/ parameter.name \in passed_kwargs
             THEN InjectLoop_no_kind_check(Tail(rest), passed_kwargs, injectable_parameters)
             ELSE InjectLoop_no_kind_check(Tail(rest), passed_kwargs,
                      SetItem(injectable_parameters, parameter.name, parameter.annotation))

find_injectable_kwargs_no_kind_check(func, passed_args, passed_kwargs) ==
    LET parameters == signature(func)
    IN  InjectLoop_no_kind_check(SubSeq(parameters, passed_args + 1, Len(parameters)),
                                 passed_kwargs, <<>>)

RECURSIVE InjectLoop_no_name_check(_, _, _)
InjectLoop_no_name_check(rest, passed_kwargs, injectable_parameters) ==
    IF rest = <<>> THEN injectable_parameters
    ELSE LET parameter == Head(rest)
         IN  IF \/ parameter.annotation = Empty
                \/ parameter.default # Empty
                \/ parameter.kind = POSITIONAL_ONLY
             THEN InjectLoop_no_name_check(Tail(rest), passed_kwargs, injectable_parameters)
             ELSE InjectLoop_no_name_check(Tail(rest), passed_kwargs,
                      SetItem(injectable_parameters, parameter.name, parameter.annotation))

find_injectable_kwargs_no_name_check(func, passed_args, passed_kwargs) ==
    LET parameters == signature(func)
    IN  InjectLoop_no_name_check(SubSeq(parameters, passed_args + 1, Len(parameters)),
                                 passed_kwargs, <<>>)

\* the loop of lines 59-71 over [*parameters.values()][passed_args:]
RECURSIVE InjectLoop(_, _, _)
InjectLoop(rest, passed_kwargs, injectable_parameters) ==
    IF rest = <<>> THEN injectable_parameters
    ELSE LET parameter == Head(rest)
         IN  IF \/ parameter.annotation = Empty
                \/ parameter.default # Empty
                \/ parameter.kind = POSITIONAL_ONLY
                \/ parameter.name \in passed_kwargs
             THEN InjectLoop(Tail(rest), passed_kwargs, injectable_parameters)
             ELSE InjectLoop(Tail(rest), passed_kwargs,
                      SetItem(injectable_parameters, parameter.name, parameter.annotation))

find_injectable_kwargs(func, passed_args, passed_kwargs) ==
    LET parameters == signature(func)
    IN  InjectLoop(SubSeq(parameters, passed_args + 1, Len(parameters)), passed_kwargs, <<>>)

----------------------------------------------------------------------------
\* Callables

Callable(qualname, parameters) == [qualname |-> qualname, parameters |-> parameters]

\* async def f(a: int, b: str = "x", *, c: Widget)
\* async def m(self: Owner, dep: Widget, svc: Service)
\* async def g(p: Widget, /, q: Widget, r)
\* async def h(*args: int, dep: Widget, **kw: Service)
Callables ==
    { Callable("f", << Parameter("a", POSITIONAL_OR_KEYWORD, "int", Empty),
                       Parameter("b", POSITIONAL_OR_KEYWORD, "str", "x"),
                       Parameter("c", KEYWORD_ONLY, "Widget", Empty) >>),
      Callable("m", << Parameter("self", POSITIONAL_OR_KEYWORD, "Owner", Empty),
                       Parameter("dep", POSITIONAL_OR_KEYWORD, "Widget", Empty),
                       Parameter("svc", POSITIONAL_OR_KEYWORD, "Service", Empty) >>),
      Callable("g", << Parameter("p", POSITIONAL_ONLY, "Widget", Empty),
                       Parameter("q", POSITIONAL_OR_KEYWORD, "Widget", Empty),
                       Parameter("r", POSITIONAL_OR_KEYWORD, Empty, Empty) >>),
      Callable("h", << Parameter("args", VAR_POSITIONAL, "int", Empty),
                       Parameter("dep", KEYWORD_ONLY, "Widget", Empty),
                       Parameter("kw", VAR_KEYWORD, "Service", Empty) >>) }

\* every signature Python accepts with at most MaxParams parameters, the
\* i-th parameter named ParamNames[i], annotated with Widget or not at all
ParamNames == <<"p1", "p2", "p3", "p4", "p5">>

KindRank(kind) == CHOOSE i \in DOMAIN Kinds : Kinds[i] = kind

Positional(kind) == kind \in {POSITIONAL_ONLY, POSITIONAL_OR_KEYWORD}

Variadic(kind) == kind \in {VAR_POSITIONAL, VAR_KEYWORD}

ValidSignature(ps) ==
    /\ \A i, j \in DOMAIN ps : i < j =>
          /\ KindRank(ps[i].kind) <= KindRank(ps[j].kind)
          /\ Variadic(ps[i].kind) => ps[i].kind # ps[j].kind
          /\ (Positional(ps[i].kind) /\ Positional(ps[j].kind) /\ ps[i].default # Empty)
                => ps[j].default # Empty
    /\ \A i \in DOMAIN ps : Variadic(ps[i].kind) => ps[i].default = Empty

Shapes == Range(Kinds) \X {Empty, "Widget"} \X {Empty, "x"}

SignaturesOfLen(n) ==
    { ps \in { [i \in 1..n |-> Parameter(ParamNames[i], sh[i][1], sh[i][2], sh[i][3])] :
               sh \in [1..n -> Shapes] } : ValidSignature(ps) }

Signatures == UNION { SignaturesOfLen(n) : n \in 0..MaxParams }

NoProbe == [func |-> Callable("", <<>>), passed_args |-> 0, passed_kwargs |-> {},
            state |-> "none", result |-> <<>>]

----------------------------------------------------------------------------
\* The host: tasks, receivers, containers, environment

Tasks == {"main", "other"}
MainTask == "main"
Instances == {"obj1", "obj2"}

\* the containers the host opens for each task's context: main has one scope,
\* other moves between two
ContainersOf == [t \in Tasks |-> IF t = "main" THEN {"main.c1"} ELSE {"other.c1", "other.c2"}]

ArgPool == <<"arg1", "arg2", "arg3", "arg4">>

ResolverErrors == {"ServiceNotFoundError"}
DelegateErrors == {"ValueError"}

FlagName == "LIGHTBULB_DI_DISABLED"

\* os.environ with the flag unset, or set to one of these strings
FlagValues == { <<"t", "r", "u", "e">>, <<"T", "R", "U", "E">>, <<"T", "r", "u", "e">>,
                <<"y", "e", "s">> }

Environs == { [k \in {} |-> <<>>] } \cup { [k \in {FlagName} |-> v] : v \in FlagValues }

\* os.environ.get(key, default)
EnvironGet(env, key, default) == IF key \in DOMAIN env THEN env[key] ELSE default

\* str.lower()
LowerChar(c) ==
    CASE c = "T" -> "t" [] c = "R" -> "r" [] c = "U" -> "u" [] c = "E" -> "e"
      [] c = "F" -> "f" [] c = "A" -> "a" [] c = "L" -> "l" [] c = "S" -> "s"
      [] c = "Y" -> "y" [] OTHER -> c

Lower(str) == [i \in DOMAIN str |-> LowerChar(str[i])]

\* line 117 with .lower() left out
DiDisabled_case_sensitive(env) ==
    EnvironGet(env, FlagName, <<"f", "a", "l", "s", "e">>) = <<"t", "r", "u", "e">>

\* line 117
DiDisabled(env) ==
    Lower(EnvironGet(env, FlagName, <<"f", "a", "l", "s", "e">>)) = <<"t", "r", "u", "e">>

\* lines 117-127: what the name LazyInjecting is bound to once the module is loaded
LoadModule(env) == IF DiDisabled(env) THEN "FakeLazyInjecting" ELSE "LazyInjecting"

----------------------------------------------------------------------------
\* LazyInjecting: construction and descriptor access

LazyInjecting_init(func, self_) == [_func |-> func, _self |-> self_]

FunctionObj(func) == [cls |-> "function", func |-> func, id |-> 0]
WrapperObj(func, id) == [cls |-> "LazyInjecting", func |-> func, id |-> id]

\* LazyInjecting(func) under the class bound at load: FakeLazyInjecting.__new__
\* hands func back, LazyInjecting allocates a wrapper and runs __init__
Construct(cls, heap, func) ==
    IF cls = "FakeLazyInjecting"
    THEN [heap |-> heap, obj |-> FunctionObj(func)]
    ELSE [heap |-> Append(heap, LazyInjecting_init(func, None)),
          obj |-> WrapperObj(func, Len(heap) + 1)]

\* __get__ rebinding the wrapper it was called on
LazyInjecting_get_rebind(heap, self, instance) ==
    IF instance # None
    THEN [heap |-> [heap EXCEPT ![self]._self = instance], result |-> self]
    ELSE [heap |-> heap, result |-> self]

LazyInjecting_get(heap, self, instance) ==
    IF instance # None
    THEN [heap |-> Append(heap, LazyInjecting_init(heap[self]._func, instance)),
          result |-> Len(heap) + 1]
    ELSE [heap |-> heap, result |-> self]

----------------------------------------------------------------------------
\* LazyInjecting.__call__: one frame per task, suspended at each await

Idle == [pc |-> "idle", wrapper |-> 0, args |-> <<>>, kwargs |-> <<>>,
         reads |-> <<>>, analyzed |-> <<>>, injectables |-> <<>>, new_kwargs |-> <<>>,
         pending |-> {}, events |-> <<>>, delegate |-> <<>>, outcome |-> <<>>]

\* _di_container held in one module-level slot shared by every task
ContextVarGet_global(context, t, default) ==
    IF context[MainTask] = Unset THEN default ELSE context[MainTask]

\* ContextVar.get(default) in the context of task t
ContextVarGet(context, t, default) ==
    IF context[t] = Unset THEN default ELSE context[t]

\* dict.update
RECURSIVE DictUpdate(_, _)
DictUpdate(d, other) ==
    IF other = <<>> THEN d
    ELSE DictUpdate(SetItem(d, Head(other)[1], Head(other)[2]), Tail(other))

\* the test of line 104 never taken
HandleMissing_never(di_container) == FALSE

\* line 104
HandleMissing(di_container) == di_container = None

\* the positional count of line 107 without the receiver
PassedArgs_no_receiver(self, args) == Len(args)

\* line 107: len(args) + (self._self is not None)
PassedArgs(self, args) == Len(args) + (IF self._self # None THEN 1 ELSE 0)

\* lines 112-114: the positional arguments of the delegate call
DelegateArgs(self, args) == IF self._self # None THEN <<self._self>> \o args ELSE args

\* svcs.Container.aget(type) of container returning
Resolve(container, type) == <<"resolved", container, type>>

Finished(frame) == {frame.events[k].index : k \in {j \in DOMAIN frame.events :
                                                   frame.events[j].ev \in {"end", "raise"}}}

Event(ev, frame, i, error) ==
    [ev |-> ev, index |-> i, name |-> frame.injectables[i][1], type |-> frame.injectables[i][2],
     container |-> frame.reads[1], error |-> error]

RECURSIVE Ascending(_)
Ascending(S) ==
    IF S = {} THEN <<>>
    ELSE LET m == CHOOSE x \in S : \A y \in S : x <= y IN <<m>> \o Ascending(S \ {m})

\* every remaining lookup started at once (asyncio.gather over the items)
NextLookups_gather(injectables, finished) ==
    Ascending({i \in DOMAIN injectables : i \notin finished})

\* lines 109-110: the for loop awaits one aget per item, in the dict's order
NextLookups(injectables, finished) ==
    LET rem == {i \in DOMAIN injectables : i \notin finished}
    IN  IF rem = {} THEN <<>> ELSE <<CHOOSE x \in rem : \A y \in rem : x <= y>>

\* lines 109-114 from the point where no lookup is in flight: start the next
\* lookup, or call the wrapped callable when none is left
Advance(self, frame) ==
    IF frame.pending # {} THEN frame
    ELSE LET starts == NextLookups(frame.injectables, Finished(frame))
         IN  IF starts = <<>>
             THEN [frame EXCEPT !.pc = "func",
                                !.delegate = Append(@, [func |-> self._func,
                                                        args |-> DelegateArgs(self, frame.args),
                                                        kwargs |-> frame.new_kwargs])]
             ELSE [frame EXCEPT !.pc = "aget",
                                !.pending = Range(starts),
                                !.events = @ \o [k \in DOMAIN starts |->
                                                    Event("start", frame, starts[k], None)]]

\* lines 100-110 up to the first await
LazyInjecting_call(w, self, args, kwargs, di_container) ==
    LET new_kwargs == DictUpdate(<<>>, kwargs)
        entered == [Idle EXCEPT !.wrapper = w, !.args = args, !.kwargs = kwargs,
                                !.reads = <<di_container>>, !.new_kwargs = new_kwargs]
    IN  IF HandleMissing(di_container)
        THEN [entered EXCEPT !.pc = "done", !.outcome = <<"raised", "RuntimeError">>]
        ELSE LET passed_args == PassedArgs(self, args)
                 passed_kwargs == Keys(kwargs)
                 injectables == find_injectable_kwargs(self._func, passed_args, passed_kwargs)
             IN  Advance(self, [entered EXCEPT
                                   !.analyzed = <<[passed_args |-> passed_args,
                                                   passed_kwargs |-> passed_kwargs]>>,
                                   !.injectables = injectables])

\* line 110 resumed with the value aget returned
OnAgetReturn(self, frame, i) ==
    Advance(self, [frame EXCEPT
        !.new_kwargs = SetItem(@, frame.injectables[i][1],
                               Resolve(frame.reads[1], frame.injectables[i][2])),
        !.pending = @ \ {i},
        !.events = Append(@, Event("end", frame, i, None))])

\* the error of a lookup caught and the parameter left out
OnAgetRaise_swallow(self, frame, i, e) ==
    Advance(self, [frame EXCEPT !.pending = @ \ {i},
                                !.events = Append(@, Event("raise", frame, i, e))])

\* line 110 resumed with an exception: nothing catches it, __call__ is left
OnAgetRaise(self, frame, i, e) ==
    [frame EXCEPT !.pc = "done", !.pending = {},
                  !.events = Append(@, Event("raise", frame, i, e)),
                  !.outcome = <<"raised", e>>]

----------------------------------------------------------------------------
\* What callers pass

NamesOf(func) == {func.parameters[i].name : i \in DOMAIN func.parameters}

\* the keyword arguments name=<<"explicit", name>> for the chosen names
KwargsFor(func, names) ==
    LET chosen(p) == p.name \in names
        ps == SelectSeq(func.parameters, chosen)
    IN  [i \in DOMAIN ps |-> <<ps[i].name, <<"explicit", ps[i].name>>>>]

KwargChoices(func) == {S \in SUBSET NamesOf(func) : Cardinality(S) <= MaxKwargs}

NoRet == [self |-> 0, instance |-> None, result |-> 0]

----------------------------------------------------------------------------
\* Actions

\* await wrapper(*args, **kwargs) in task t, up to its first await
Call(t, w, n, names) ==
    /\ inv[t].pc = "idle"
    /\ w \in DOMAIN wrappers
    /\ LET self == wrappers[w]
       IN  inv' = [inv EXCEPT ![t] =
                     LazyInjecting_call(w, self, SubSeq(ArgPool, 1, n),
                                        KwargsFor(self._func, names),
                                        ContextVarGet(ctx, t, None))]
    /\ UNCHANGED <<environ, LazyInjecting, decorated, wrappers, constructed, ret, ctx, probe>>

\* with injection disabled the decorated name is the callable itself
CallDirect(t, n, names) ==
    /\ inv[t].pc = "idle"
    /\ decorated.cls = "function"
    /\ inv' = [inv EXCEPT ![t] =
                 [Idle EXCEPT !.pc = "func",
                              !.args = SubSeq(ArgPool, 1, n),
                              !.kwargs = KwargsFor(decorated.func, names),
                              !.delegate = <<[func |-> decorated.func,
                                              args |-> SubSeq(ArgPool, 1, n),
                                              kwargs |-> KwargsFor(decorated.func, names)]>>]]
    /\ UNCHANGED <<environ, LazyInjecting, decorated, wrappers, constructed, ret, ctx, probe>>

AgetReturn(t, i) ==
    /\ inv[t].pc = "aget"
    /\ i \in inv[t].pending
    /\ inv' = [inv EXCEPT ![t] = OnAgetReturn(wrappers[inv[t].wrapper], inv[t], i)]
    /\ UNCHANGED <<environ, LazyInjecting, decorated, wrappers, constructed, ret, ctx, probe>>

AgetRaise(t, i, e) ==
    /\ inv[t].pc = "aget"
    /\ i \in inv[t].pending
    /\ inv' = [inv EXCEPT ![t] = OnAgetRaise(wrappers[inv[t].wrapper], inv[t], i, e)]
    /\ UNCHANGED <<environ, LazyInjecting, decorated, wrappers, constructed, ret, ctx, probe>>

\* lines 113-114: the awaited delegate call returns, and __call__ returns its value
FuncReturn(t) ==
    /\ inv[t].pc = "func"
    /\ inv' = [inv EXCEPT ![t].pc = "done", ![t].outcome = <<"returned", "value">>]
    /\ UNCHANGED <<environ, LazyInjecting, decorated, wrappers, constructed, ret, ctx, probe>>

\* lines 113-114: the awaited delegate call raises, and nothing catches it
FuncRaise(t, e) ==
    /\ inv[t].pc = "func"
    /\ inv' = [inv EXCEPT ![t].pc = "done", ![t].outcome = <<"raised", e>>]
    /\ UNCHANGED <<environ, LazyInjecting, decorated, wrappers, constructed, ret, ctx, probe>>

\* the caller has its result; the task is free for another call
Finish(t) ==
    /\ inv[t].pc = "done"
    /\ inv' = [inv EXCEPT ![t] = Idle]
    /\ UNCHANGED <<environ, LazyInjecting, decorated, wrappers, constructed, ret, ctx, probe>>

\* the host sets or resets _di_container in the context of task t
SetHandle(t, v) ==
    /\ v \in ContainersOf[t] \cup {Unset}
    /\ v # ctx[t]
    /\ ctx' = [ctx EXCEPT ![t] = v]
    /\ UNCHANGED <<environ, LazyInjecting, decorated, wrappers, constructed, ret, inv, probe>>

\* attribute access on an instance (or, with None, on the defining type)
DescriptorAccess(w, instance) ==
    /\ w \in DOMAIN wrappers
    /\ instance # None => Len(wrappers) < MaxWrappers
    /\ LET r == LazyInjecting_get(wrappers, w, instance)
       IN  /\ wrappers' = r.heap
           /\ constructed' = constructed \o SubSeq(r.heap, Len(wrappers) + 1, Len(r.heap))
           /\ ret' = [self |-> w, instance |-> instance, result |-> r.result]
    /\ UNCHANGED <<environ, LazyInjecting, decorated, ctx, inv, probe>>

\* find_injectable_kwargs called directly
Analyze ==
    /\ probe.state = "called"
    /\ probe' = [probe EXCEPT !.state = "returned",
                              !.result = find_injectable_kwargs(probe.func, probe.passed_args,
                                                                probe.passed_kwargs)]
    /\ UNCHANGED <<environ, LazyInjecting, decorated, wrappers, constructed, ret, ctx, inv>>

----------------------------------------------------------------------------
\* Specifications

Loaded(env, func) ==
    /\ environ = env
    /\ LazyInjecting = LoadModule(env)
    /\ LET c == Construct(LoadModule(env), <<>>, func)
       IN  /\ wrappers = c.heap
           /\ constructed = c.heap
           /\ decorated = c.obj
    /\ ret = NoRet
    /\ ctx = [t \in Tasks |-> Unset]
    /\ inv = [t \in Tasks |-> Idle]
    /\ probe = NoProbe

\* the module loaded under some environment and one callable decorated
Init == \E env \in Environs, func \in Callables : Loaded(env, func)

TaskNext(t) ==
    \/ \E w \in DOMAIN wrappers, n \in 0..MaxArgs :
          \E names \in KwargChoices(wrappers[w]._func) : Call(t, w, n, names)
    \/ \E n \in 0..MaxArgs : \E names \in KwargChoices(decorated.func) : CallDirect(t, n, names)
    \/ \E i \in inv[t].pending : AgetReturn(t, i)
    \/ \E i \in inv[t].pending, e \in ResolverErrors : AgetRaise(t, i, e)
    \/ FuncReturn(t)
    \/ \E e \in DelegateErrors : FuncRaise(t, e)
    \/ Finish(t)
    \/ \E v \in ContainersOf[t] \cup {Unset} : SetHandle(t, v)

\* one task calling, and attribute accesses on the decorated wrapper (the one
\* stored in the class body) creating bound wrappers
Next ==
    \/ TaskNext(MainTask)
    \/ \E w \in {decorated.id} \cap DOMAIN wrappers, instance \in Instances \cup {None} :
          DescriptorAccess(w, instance)

Spec == Init /\ [][Next]_vars

\* the method m decorated, with the flag unset or set to TRUE; every task
\* calls the one decorated object
InitConc ==
    \E env \in {e \in Environs : \A k \in DOMAIN e : e[k] = <<"T", "R", "U", "E">>} :
        \E func \in {f \in Callables : f.qualname = "m"} : Loaded(env, func)

NextConc == \E t \in Tasks : TaskNext(t)

SpecConc == InitConc /\ [][NextConc]_vars

\* find_injectable_kwargs on every signature, positional count and keyword set
InitAnalyzer ==
    /\ environ = [k \in {} |-> <<>>]
    /\ LazyInjecting = LoadModule(environ)
    /\ wrappers = <<>>
    /\ constructed = <<>>
    /\ decorated = FunctionObj(Callable("", <<>>))
    /\ ret = NoRet
    /\ ctx = [t \in Tasks |-> Unset]
    /\ inv = [t \in Tasks |-> Idle]
    /\ \E ps \in Signatures, passed_args \in 0..(MaxParams + 1) :
          \E passed_kwargs \in SUBSET {ps[i].name : i \in DOMAIN ps} :
             probe = [func |-> Callable("sig", ps), passed_args |-> passed_args,
                      passed_kwargs |-> passed_kwargs, state |-> "called", result |-> <<>>]

NextAnalyzer == Analyze

SpecAnalyzer == InitAnalyzer /\ [][NextAnalyzer]_vars

----------------------------------------------------------------------------
\* Properties

\* the frames of calls that went through a LazyInjecting wrapper
Wrapped(t) == inv[t].pc # "idle" /\ inv[t].wrapper # 0

Evs(frame, kinds) == {k \in DOMAIN frame.events : frame.events[k].ev \in kinds}

\* C1: a wrapper call (bound or unbound, any arguments) made while
\* _di_container is unset in the caller's context ends with RuntimeError
\* without an analyzer call, a resolver lookup or a call of the wrapped
\* callable; a frame that read no handle never gets any of them later.
C1_NoHandleFrame ==
    \A t \in Tasks :
        (Wrapped(t) /\ inv[t].reads = <<None>>) =>
            /\ inv[t].pc = "done"
            /\ inv[t].outcome = <<"raised", "RuntimeError">>
            /\ inv[t].analyzed = <<>>
            /\ inv[t].events = <<>>
            /\ inv[t].delegate = <<>>

C1_CallWhileUnset ==
    \A t \in Tasks :
        (inv[t].pc = "idle" /\ inv'[t].pc # "idle" /\ inv'[t].wrapper # 0 /\ ctx[t] = Unset) =>
            /\ inv'[t].reads = <<None>>
            /\ inv'[t].pc = "done"
            /\ inv'[t].outcome = <<"raised", "RuntimeError">>

C1_UnsetHandleFailsFirst == [](C1_NoHandleFrame) /\ [][C1_CallWhileUnset]_vars

C1_Witness ==
    \E t \in Tasks :
        /\ Wrapped(t)
        /\ ctx[t] = Unset
        /\ inv[t].outcome = <<"raised", "RuntimeError">>
        /\ wrappers[inv[t].wrapper]._self # None
        /\ inv[t].args # <<>>
        /\ inv[t].kwargs # <<>>

\* C2: find_injectable_kwargs returns exactly name -> annotation for the
\* parameters after the first passed_args ones that are annotated, have no
\* default, are not positional-only and are not named in passed_kwargs, in
\* declaration order; so no positional-only parameter, no parameter with a
\* default and no parameter named in passed_kwargs is in the result.
C2_ExactInjectableSet ==
    probe.state = "returned" =>
        LET ps == probe.func.parameters
            r == probe.result
            eligible == {i \in DOMAIN ps :
                            /\ i > probe.passed_args
                            /\ ps[i].annotation # Empty
                            /\ ps[i].default = Empty
                            /\ ps[i].kind # POSITIONAL_ONLY
                            /\ ps[i].name \notin probe.passed_kwargs}
            pos(k) == CHOOSE i \in DOMAIN ps : ps[i].name = r[k][1]
        IN  /\ Len(r) = Cardinality(eligible)
            /\ \A i \in eligible : \E k \in DOMAIN r : r[k] = <<ps[i].name, ps[i].annotation>>
            /\ \A k \in DOMAIN r : \E i \in eligible : r[k] = <<ps[i].name, ps[i].annotation>>
            /\ \A k1, k2 \in DOMAIN r : k1 < k2 => pos(k1) < pos(k2)
            /\ \A i \in DOMAIN ps :
                  (\/ ps[i].kind = POSITIONAL_ONLY
                   \/ ps[i].default # Empty
                   \/ ps[i].name \in probe.passed_kwargs) => ps[i].name \notin Keys(r)

C2_Witness ==
    /\ probe.state = "returned"
    /\ probe.result # <<>>
    /\ LET ps == probe.func.parameters
       IN  /\ \E i \in DOMAIN ps : /\ i > probe.passed_args
                                   /\ ps[i].kind = POSITIONAL_ONLY
                                   /\ ps[i].annotation # Empty
                                   /\ ps[i].default = Empty
                                   /\ ps[i].name \notin probe.passed_kwargs
           /\ \E i \in DOMAIN ps : /\ i > probe.passed_args
                                   /\ ps[i].kind # POSITIONAL_ONLY
                                   /\ ps[i].annotation # Empty
                                   /\ ps[i].default = Empty
                                   /\ ps[i].name \in probe.passed_kwargs

\* C3: when a wrapper call reaches the wrapped callable, the keyword map it
\* hands over has exactly the caller's keys plus the injectable names; each
\* caller key keeps the caller's value, each injectable name holds the value
\* resolved for its type, no lookup is ever made for a name the caller
\* supplied, and the caller's positional arguments follow (after the
\* receiver, if any) unchanged and in order.
C3_KwargsPreserved ==
    \A t \in Tasks : Wrapped(t) =>
        LET fr == inv[t]
        IN  /\ \A k \in DOMAIN fr.events : fr.events[k].name \notin Keys(fr.kwargs)
            /\ fr.delegate # <<>> =>
                  LET d == fr.delegate[1]
                  IN  /\ Keys(d.kwargs) = Keys(fr.kwargs) \cup Keys(fr.injectables)
                      /\ Len(d.kwargs) = Cardinality(Keys(d.kwargs))
                      /\ \A n \in Keys(fr.kwargs) :
                            GetItem(d.kwargs, n) = GetItem(fr.kwargs, n)
                      /\ \A n \in Keys(fr.injectables) :
                            /\ n \notin Keys(fr.kwargs)
                            /\ GetItem(d.kwargs, n) =
                                  <<"resolved", fr.reads[1], GetItem(fr.injectables, n)>>
                      /\ Len(d.args) >= Len(fr.args)
                      /\ SubSeq(d.args, Len(d.args) - Len(fr.args) + 1, Len(d.args)) = fr.args

C3_Witness ==
    \E t \in Tasks :
        /\ Wrapped(t)
        /\ inv[t].outcome = <<"returned", "value">>
        /\ inv[t].args # <<>>
        /\ inv[t].injectables # <<>>
        /\ LET ps == wrappers[inv[t].wrapper]._func.parameters
           IN  \E i \in DOMAIN ps : /\ i > inv[t].analyzed[1].passed_args
                                    /\ ps[i].annotation # Empty
                                    /\ ps[i].default = Empty
                                    /\ ps[i].kind # POSITIONAL_ONLY
                                    /\ ps[i].name \in Keys(inv[t].kwargs)

C5_NoPartialFailure ==
    \A t \in Tasks : Wrapped(t) =>
        LET fr == inv[t]
        IN  /\ Len(fr.delegate) <= 1
            /\ fr.delegate # <<>> =>
                  /\ Evs(fr, {"raise"}) = {}
                  /\ \A i \in DOMAIN fr.injectables :
                        \E k \in Evs(fr, {"end"}) : fr.events[k].index = i
                  /\ fr.pending = {}
                  /\ fr.pc \in {"func", "done"}
                  /\ fr.pc = "done" =>
                        \/ fr.outcome = <<"returned", "value">>
                        \/ \E e \in DelegateErrors : fr.outcome = <<"raised", e>>
            /\ \A k \in Evs(fr, {"raise"}) :
                  /\ k = Len(fr.events)
                  /\ fr.pc = "done"
                  /\ fr.outcome = <<"raised", fr.events[k].error>>
                  /\ fr.delegate = <<>>
                  /\ \A j \in Evs(fr, {"start"}) : fr.events[j].index <= fr.events[k].index

C5_Witness ==
    \E t \in Tasks :
        /\ Wrapped(t)
        /\ Len(inv[t].injectables) >= 2
        /\ \E k \in Evs(inv[t], {"raise"}) : inv[t].events[k].index = 1
        /\ inv[t].outcome = <<"raised", "ServiceNotFoundError">>

\* C6: every wrapper holds the callable and the receiver its construction
\* gave it, whatever descriptor accesses and calls have happened; an access
\* with an instance returned a wrapper that did not exist before, holding
\* the accessed wrapper's callable and that instance, and left every
\* existing wrapper as it was; an access without an instance returned the
\* accessed wrapper itself and created nothing.
C6_WrappersAsConstructed ==
    /\ wrappers = constructed
    /\ \A w \in DOMAIN wrappers : wrappers[w]._func = decorated.func
    /\ decorated.cls = "LazyInjecting" => wrappers[decorated.id]._self = None

C6_AccessStep ==
    /\ wrappers' # wrappers => ret' # ret
    /\ ret' # ret =>
          IF ret'.instance # None
          THEN /\ ret'.result \notin DOMAIN wrappers
               /\ DOMAIN wrappers' = DOMAIN wrappers \cup {ret'.result}
               /\ wrappers'[ret'.result] = [_func |-> wrappers[ret'.self]._func,
                                            _self |-> ret'.instance]
               /\ \A w \in DOMAIN wrappers : wrappers'[w] = wrappers[w]
          ELSE /\ ret'.result = ret'.self
               /\ wrappers' = wrappers

C6_BindingNeverMutates == [](C6_WrappersAsConstructed) /\ [][C6_AccessStep]_vars

C6_Witness ==
    /\ Len(wrappers) = 3
    /\ wrappers[2]._self # wrappers[3]._self
    /\ ret.instance = None
    /\ \E t \in Tasks : /\ Wrapped(t)
                        /\ inv[t].wrapper = 2
                        /\ inv[t].delegate # <<>>
                        /\ inv[t].delegate[1].args[1] = wrappers[2]._self

\* C7: a call through a wrapper bound to a receiver gives the analyzer
\* len(P) + 1 as the positional count (len(P) when unbound) and the key set
\* of K, calls the wrapped callable with the receiver followed by P (just P
\* when unbound), and never has the callable's first parameter, the
\* receiver's, in the injectable set or among the lookups.
C7_ReceiverCounted ==
    \A t \in Tasks : Wrapped(t) =>
        LET fr == inv[t]
            self == wrappers[fr.wrapper]
            bound == self._self # None
            ps == self._func.parameters
        IN  /\ fr.analyzed # <<>> =>
                  /\ fr.analyzed[1].passed_args = Len(fr.args) + (IF bound THEN 1 ELSE 0)
                  /\ fr.analyzed[1].passed_kwargs = {fr.kwargs[k][1] : k \in DOMAIN fr.kwargs}
            /\ fr.delegate # <<>> =>
                  /\ fr.delegate[1].func = self._func
                  /\ fr.delegate[1].args = (IF bound THEN <<self._self>> ELSE <<>>) \o fr.args
            /\ (bound /\ ps # <<>>) =>
                  /\ ps[1].name \notin Keys(fr.injectables)
                  /\ \A k \in DOMAIN fr.events : fr.events[k].name # ps[1].name

C7_Witness ==
    \E t \in Tasks :
        /\ Wrapped(t)
        /\ wrappers[inv[t].wrapper]._self = "obj1"
        /\ wrappers[inv[t].wrapper]._func.qualname = "m"
        /\ inv[t].args # <<>>
        /\ inv[t].delegate # <<>>
        /\ inv[t].injectables # <<>>

\* the two spellings of each letter of "true"
CaseVariants == <<{"t", "T"}, {"r", "R"}, {"u", "U"}, {"e", "E"}>>

FlagIsTrue ==
    /\ FlagName \in DOMAIN environ
    /\ Len(environ[FlagName]) = Len(CaseVariants)
    /\ \A i \in DOMAIN CaseVariants : environ[FlagName][i] \in CaseVariants[i]

\* C8: with LIGHTBULB_DI_DISABLED equal to "true" in any letter case at load,
\* LazyInjecting(func) is func itself, no wrapper exists and no call ever
\* reads _di_container, runs the analyzer or makes a lookup; with any other
\* value, or the flag unset, LazyInjecting(func) is an injecting wrapper of
\* func; and no step changes which of the two the module provides.
C8_ModeByFlag ==
    IF FlagIsTrue
    THEN /\ LazyInjecting = "FakeLazyInjecting"
         /\ decorated.cls = "function"
         /\ wrappers = <<>>
         /\ \A t \in Tasks : /\ inv[t].wrapper = 0
                             /\ inv[t].reads = <<>>
                             /\ inv[t].analyzed = <<>>
                             /\ inv[t].events = <<>>
                             /\ inv[t].delegate # <<>> =>
                                   /\ inv[t].delegate[1].func = decorated.func
                                   /\ inv[t].delegate[1].args = inv[t].args
                                   /\ inv[t].delegate[1].kwargs = inv[t].kwargs
    ELSE /\ LazyInjecting = "LazyInjecting"
         /\ decorated.cls = "LazyInjecting"
         /\ decorated.id \in DOMAIN wrappers
         /\ wrappers[decorated.id] = [_func |-> decorated.func, _self |-> None]
         /\ \A t \in Tasks : inv[t].pc # "idle" => inv[t].wrapper # 0

C8_ModeFixed == LazyInjecting' = LazyInjecting /\ decorated' = decorated /\ environ' = environ

C8_DisabledIsPassThrough == [](C8_ModeByFlag) /\ [][C8_ModeFixed]_vars

C8_Witness ==
    /\ FlagIsTrue
    /\ environ[FlagName] # <<"t", "r", "u", "e">>
    /\ \E t \in Tasks : /\ ctx[t] = Unset
                        /\ inv[t].outcome = <<"returned", "value">>
                        /\ inv[t].kwargs # <<>>

\* the container that resolved a value handed to the wrapped callable
ResolvedFrom(kwargs) == {kwargs[k][2][2] : k \in {j \in DOMAIN kwargs : kwargs[j][2][1] = "resolved"}}

\* C9: with invocations of one wrapper interleaved over tasks that each have
\* their own handle, every invocation reads the handle once, before its
\* first lookup, gets a container of its own task (or none), sends every
\* lookup to that container and hands the wrapped callable only values that
\* container resolved, whatever the handles are set to in the meantime.
C9_TaskIsolation ==
    \A t \in Tasks : Wrapped(t) =>
        LET fr == inv[t]
        IN  /\ Len(fr.reads) = 1
            /\ fr.reads[1] \in ContainersOf[t] \cup {None}
            /\ \A k \in DOMAIN fr.events :
                  /\ fr.events[k].container = fr.reads[1]
                  /\ fr.events[k].container \in ContainersOf[t]
            /\ ResolvedFrom(fr.new_kwargs) \subseteq {fr.reads[1]} \cap ContainersOf[t]
            /\ fr.delegate # <<>> =>
                  ResolvedFrom(fr.delegate[1].kwargs) \subseteq {fr.reads[1]} \cap ContainersOf[t]

C9_Witness ==
    /\ inv["main"].pc = "aget"
    /\ inv["main"].wrapper = inv["other"].wrapper
    /\ ResolvedFrom(inv["main"].new_kwargs) = {"main.c1"}
    /\ ctx["main"] = Unset
    /\ inv["other"].pc = "func"
    /\ ResolvedFrom(inv["other"].delegate[1].kwargs) = {"other.c1"}
    /\ Cardinality(Evs(inv["other"], {"end"})) >= 2
    /\ ctx["other"] = "other.c2"

\* C10: every injected name belongs to a positional-or-keyword or
\* keyword-only parameter, and every annotated, default-less keyword-only
\* parameter the caller did not supply is injected, however many positional
\* arguments the call passes.
C10_InjectedNamesAreKeywordable ==
    \A t \in Tasks : (Wrapped(t) /\ inv[t].analyzed # <<>>) =>
        LET fr == inv[t]
            ps == wrappers[fr.wrapper]._func.parameters
        IN  /\ \A i \in DOMAIN ps :
                  ps[i].name \in Keys(fr.injectables) =>
                      ps[i].kind \in {POSITIONAL_OR_KEYWORD, KEYWORD_ONLY}
            /\ \A i \in DOMAIN ps :
                  (/\ ps[i].kind = KEYWORD_ONLY
                   /\ ps[i].annotation # Empty
                   /\ ps[i].default = Empty
                   /\ ps[i].name \notin Keys(fr.kwargs)) => ps[i].name \in Keys(fr.injectables)

====
